---- MODULE Spec2Model ----
(***************************************************************************)
(* A model of basic_block_gp/blockchain.py: the Blockchain class (chain,   *)
(* current_transactions, new_block, hash, last_block, valid_proof,         *)
(* new_transaction) and the /mine request handler.                         *)
(*                                                                         *)
(* Python values are modelled with their reference semantics: a list is an *)
(* object on a heap (lists), a transaction dict is an object on a heap     *)
(* (dicts), and a block's 'transactions' entry holds the address of a list *)
(* object, as in the code.  A dict is the sequence of its <<key, value>>   *)
(* pairs in insertion order; text is a sequence of character codes.        *)
(***************************************************************************)
EXTENDS Integers, Sequences, FiniteSets, TLC

VARIABLES chain, current_transactions, lists, dicts, returned, result, threads

vars == <<chain, current_transactions, lists, dicts, returned, result, threads>>

(***************************************************************************)
(* Bounds of the model.                                                    *)
(***************************************************************************)
MaxChain == 3
MaxTxs == 2
MaxProof == 3
MaxTextLen == 2
MaxProofArg == 12

(***************************************************************************)
(* Program constants.                                                      *)
(***************************************************************************)
GenesisProof == 100
GenesisPreviousHash == 1
RewardAmount == 1
Difficulty == 6
HexDigestLen == 64

(***************************************************************************)
(* Text: the string literals of the program, as character codes.           *)
(***************************************************************************)
kIndex == <<105, 110, 100, 101, 120>>
kProof == <<112, 114, 111, 111, 102>>
kTimestamp == <<116, 105, 109, 101, 115, 116, 97, 109, 112>>
kTransactions == <<116, 114, 97, 110, 115, 97, 99, 116, 105, 111, 110, 115>>
kPreviousHash == <<112, 114, 101, 118, 105, 111, 117, 115, 95, 104, 97, 115, 104>>
kSender == <<115, 101, 110, 100, 101, 114>>
kRecipient == <<114, 101, 99, 105, 112, 105, 101, 110, 116>>
kAmount == <<97, 109, 111, 117, 110, 116>>
kId == <<105, 100>>
RewardSender == <<48>>

\* The inputs of the calls: the node ids "a" and "b", the proofs, the readings
\* of the clock (whole seconds) and the amounts.
Ids == {<<97>>, <<98>>}
Senders == {<<97>>}
Proofs == 0..MaxProof
\* new_block does not look at its proof: a direct call passes one of two.
DirectProofs == {0, 1}
Times == {0, 1}
Amounts == {5}

(***************************************************************************)
(* Python values, tagged with their type.                                  *)
(***************************************************************************)
IntV(n) == [tag |-> "int", val |-> n]
FloatV(n) == [tag |-> "float", val |-> n]
StrV(s) == [tag |-> "str", val |-> s]
NoneV == [tag |-> "none", val |-> 0]
ListV(addr) == [tag |-> "list", val |-> addr]
DictV(pairs) == [tag |-> "dict", val |-> pairs]

\* d[k] for a dict d given as its pairs; k in d.
HasKey(pairs, k) == \E i \in 1..Len(pairs) : pairs[i][1] = k
Get(pairs, k) == pairs[CHOOSE i \in 1..Len(pairs) : pairs[i][1] = k][2]

(***************************************************************************)
(* str(n) of an integer: its decimal digits.                               *)
(***************************************************************************)
RECURSIVE Digits(_)
Digits(n) ==
    IF n < 10 THEN <<48 + n>> ELSE Digits(n \div 10) \o <<48 + (n % 10)>>

Decimal(n) == IF n < 0 THEN <<45>> \o Digits(0 - n) ELSE Digits(n)

\* repr of a float holding a whole number of seconds: "12.0".
FloatRepr(n) == Decimal(n) \o <<46, 48>>

(***************************************************************************)
(* json.dumps(value, sort_keys=True)                                       *)
(***************************************************************************)
\* Python's str comparison: by code point, a proper prefix first.
RECURSIVE LexLess(_, _)
LexLess(a, b) ==
    IF a = <<>> THEN b # <<>>
    ELSE IF b = <<>> THEN FALSE
    ELSE IF Head(a) # Head(b) THEN Head(a) < Head(b)
    ELSE LexLess(Tail(a), Tail(b))

RECURSIVE InsertSorted(_, _)
InsertSorted(sorted, pair) ==
    IF sorted = <<>> THEN <<pair>>
    ELSE IF LexLess(pair[1], Head(sorted)[1]) THEN <<pair>> \o sorted
    ELSE <<Head(sorted)>> \o InsertSorted(Tail(sorted), pair)

RECURSIVE SortItems(_)
SortItems(pairs) ==
    IF pairs = <<>> THEN <<>>
    ELSE InsertSorted(SortItems(SubSeq(pairs, 1, Len(pairs) - 1)), pairs[Len(pairs)])

\* ", ".join(parts)
RECURSIVE Join(_)
Join(parts) ==
    IF parts = <<>> THEN <<>>
    ELSE IF Len(parts) = 1 THEN parts[1]
    ELSE parts[1] \o <<44, 32>> \o Join(Tail(parts))

Quoted(s) == <<34>> \o s \o <<34>>

RECURSIVE JsonDumps(_, _, _)
JsonDumps(v, ls, ds) ==
    CASE v.tag = "int" -> Decimal(v.val)
      [] v.tag = "float" -> FloatRepr(v.val)
      [] v.tag = "str" -> Quoted(v.val)
      [] v.tag = "none" -> <<110, 117, 108, 108>>
      [] v.tag = "list" ->
            <<91>>
            \o Join([i \in 1..Len(ls[v.val]) |->
                        JsonDumps(DictV(ds[ls[v.val][i]]), ls, ds)])
            \o <<93>>
      [] v.tag = "dict" ->
            LET items == SortItems(v.val) IN
            <<123>>
            \o Join([i \in 1..Len(items) |->
                        Quoted(items[i][1]) \o <<58, 32>>
                        \o JsonDumps(items[i][2], ls, ds)])
            \o <<125>>

(***************************************************************************)
(* hashlib.sha256(bytes).hexdigest().  SHA-256 itself is library code; it  *)
(* is stood for by a deterministic digest of the same shape (64 lowercase  *)
(* hex characters computed from every byte of the input), with a target    *)
(* small enough that proofs are found among the inputs of the model.       *)
(***************************************************************************)
\* The sum of the bytes lo..hi, each weighted by its position, halving the
\* range at each step.
RECURSIVE Mix(_, _, _)
Mix(bytes, lo, hi) ==
    IF lo > hi THEN 0
    ELSE IF lo = hi THEN ((2 * lo + 1) * bytes[lo]) % 256
    ELSE LET mid == (lo + hi) \div 2 IN
         (Mix(bytes, lo, mid) + Mix(bytes, mid + 1, hi)) % 256

Compress(bytes) == (5 + Mix(bytes, 1, Len(bytes))) % 256

Nibble(h, i) ==
    IF i <= 3 THEN (8 * h) % 16
    ELSE IF i <= 6 THEN (4 * h) % 16
    ELSE IF i % 2 = 0 THEN ((h \div 16) + i) % 16
    ELSE (h + i) % 16

HexChar(d) == IF d < 10 THEN 48 + d ELSE 87 + d

Sha256HexDigest(bytes) ==
    LET h == Compress(bytes) IN
    [i \in 1..HexDigestLen |-> HexChar(Nibble(h, i))]

(***************************************************************************)
(* The Blockchain object.  A ledger S is the record of the object's two    *)
(* attributes and of the heaps they point into.                            *)
(***************************************************************************)
Ledger == [chain |-> chain, current_transactions |-> current_transactions,
           lists |-> lists, dicts |-> dicts]

\* The ledger after a step.
LedgerNext == [chain |-> chain', current_transactions |-> current_transactions',
               lists |-> lists', dicts |-> dicts']

\* The transactions a list object holds, as values.
ListItems(S, addr) == [i \in 1..Len(S.lists[addr]) |-> S.dicts[S.lists[addr][i]]]

\* A block's fields.
BlockIndex(block) == Get(block, kIndex).val
BlockProof(block) == Get(block, kProof)
BlockTimestamp(block) == Get(block, kTimestamp).val
BlockPreviousHash(block) == Get(block, kPreviousHash)
BlockList(block) == Get(block, kTransactions).val
BlockTransactions(S, block) == ListItems(S, BlockList(block))

\* new_block with the pending list emptied in place (del list[:]) instead of
\* being replaced by a fresh list: the sealed block keeps sharing the list.
new_block_clear_in_place(S, proof, previous_hash, now) ==
    LET block == << <<kIndex, IntV(Len(S.chain) + 1)>>,
                    <<kProof, proof>>,
                    <<kTimestamp, FloatV(now)>>,
                    <<kTransactions, ListV(S.current_transactions)>>,
                    <<kPreviousHash, previous_hash>> >>
    IN [S |-> [chain |-> Append(S.chain, block),
               current_transactions |-> S.current_transactions,
               lists |-> [S.lists EXCEPT ![S.current_transactions] = <<>>],
               dicts |-> S.dicts],
        ret |-> block]

\* new_block numbering the block by the length of the chain before the append.
new_block_index_len(S, proof, previous_hash, now) ==
    LET block == << <<kIndex, IntV(Len(S.chain))>>,
                    <<kProof, proof>>,
                    <<kTimestamp, FloatV(now)>>,
                    <<kTransactions, ListV(S.current_transactions)>>,
                    <<kPreviousHash, previous_hash>> >>
    IN [S |-> [chain |-> Append(S.chain, block),
               current_transactions |-> Len(S.lists) + 1,
               lists |-> Append(S.lists, <<>>),
               dicts |-> S.dicts],
        ret |-> block]

\* new_block without the reset of current_transactions.
new_block_no_reset(S, proof, previous_hash, now) ==
    LET block == << <<kIndex, IntV(Len(S.chain) + 1)>>,
                    <<kProof, proof>>,
                    <<kTimestamp, FloatV(now)>>,
                    <<kTransactions, ListV(S.current_transactions)>>,
                    <<kPreviousHash, previous_hash>> >>
    IN [S |-> [chain |-> Append(S.chain, block),
               current_transactions |-> S.current_transactions,
               lists |-> S.lists,
               dicts |-> S.dicts],
        ret |-> block]

\* new_block resetting current_transactions before it builds the block.
new_block_reset_first(S, proof, previous_hash, now) ==
    LET block == << <<kIndex, IntV(Len(S.chain) + 1)>>,
                    <<kProof, proof>>,
                    <<kTimestamp, FloatV(now)>>,
                    <<kTransactions, ListV(Len(S.lists) + 1)>>,
                    <<kPreviousHash, previous_hash>> >>
    IN [S |-> [chain |-> Append(S.chain, block),
               current_transactions |-> Len(S.lists) + 2,
               lists |-> S.lists \o << <<>>, <<>> >>,
               dicts |-> S.dicts],
        ret |-> block]

\* new_block refusing a previous_hash that is not the hash of the last block.
new_block_checks_previous_hash(S, proof, previous_hash, now) ==
    LET block == << <<kIndex, IntV(Len(S.chain) + 1)>>,
                    <<kProof, proof>>,
                    <<kTimestamp, FloatV(now)>>,
                    <<kTransactions, ListV(S.current_transactions)>>,
                    <<kPreviousHash, previous_hash>> >>
        linked ==
            \/ S.chain = <<>>
            \/ previous_hash = StrV(Sha256HexDigest(
                   JsonDumps(DictV(S.chain[Len(S.chain)]), S.lists, S.dicts)))
    IN IF linked
       THEN [S |-> [chain |-> Append(S.chain, block),
                    current_transactions |-> Len(S.lists) + 1,
                    lists |-> Append(S.lists, <<>>),
                    dicts |-> S.dicts],
             ret |-> block]
       ELSE [S |-> S, ret |-> <<>>]

\* Blockchain.new_block: the ledger after the call and the block returned.
new_block(S, proof, previous_hash, now) ==
    LET block == << <<kIndex, IntV(Len(S.chain) + 1)>>,
                    <<kProof, proof>>,
                    <<kTimestamp, FloatV(now)>>,
                    <<kTransactions, ListV(S.current_transactions)>>,
                    <<kPreviousHash, previous_hash>> >>
    IN [S |-> [chain |-> Append(S.chain, block),
               current_transactions |-> Len(S.lists) + 1,
               lists |-> Append(S.lists, <<>>),
               dicts |-> S.dicts],
        ret |-> block]

\* Blockchain.hash
hash_insertion_order(S, block) ==
    Sha256HexDigest(
        <<123>>
        \o Join([i \in 1..Len(block) |->
                    Quoted(block[i][1]) \o <<58, 32>>
                    \o JsonDumps(block[i][2], S.lists, S.dicts)])
        \o <<125>>)

\* Blockchain.hash
hash(S, block) == Sha256HexDigest(JsonDumps(DictV(block), S.lists, S.dicts))

\* last_block reading the first block of the chain.
last_block_first(S) == S.chain[1]

\* Blockchain.last_block
last_block(S) == S.chain[Len(S.chain)]

\* str(value), as the f-string of valid_proof formats the proof.
PyStr(v) == IF v.tag = "str" THEN v.val ELSE JsonDumps(v, <<>>, <<>>)

\* valid_proof as its docstring words it: three leading zeroes.
valid_proof_three_zeroes(block_string, proof) ==
    LET guess == block_string \o PyStr(proof)
        guess_hash == Sha256HexDigest(guess)
    IN SubSeq(guess_hash, 1, 3) = [i \in 1..3 |-> 48]

\* Blockchain.valid_proof
valid_proof(block_string, proof) ==
    LET guess == block_string \o PyStr(proof)
        guess_hash == Sha256HexDigest(guess)
    IN SubSeq(guess_hash, 1, Difficulty) = [i \in 1..Difficulty |-> 48]

\* new_transaction returning the index of the last block itself.
new_transaction_last_index(S, sender, recipient, amount) ==
    LET transaction == << <<kSender, sender>>,
                          <<kRecipient, recipient>>,
                          <<kAmount, amount>> >>
        addr == Len(S.dicts) + 1
    IN [S |-> [chain |-> S.chain,
               current_transactions |-> S.current_transactions,
               lists |-> [S.lists EXCEPT
                            ![S.current_transactions] = Append(@, addr)],
               dicts |-> Append(S.dicts, transaction)],
        ret |-> BlockIndex(last_block(S))]

\* Blockchain.new_transaction: the ledger after the call and the index returned.
new_transaction(S, sender, recipient, amount) ==
    LET transaction == << <<kSender, sender>>,
                          <<kRecipient, recipient>>,
                          <<kAmount, amount>> >>
        addr == Len(S.dicts) + 1
    IN [S |-> [chain |-> S.chain,
               current_transactions |-> S.current_transactions,
               lists |-> [S.lists EXCEPT
                            ![S.current_transactions] = Append(@, addr)],
               dicts |-> Append(S.dicts, transaction)],
        ret |-> BlockIndex(last_block(S)) + 1]

\* new_block statement by statement: the block literal of lines 30-36, the
\* rebinding of line 39 and the append of line 41.
new_block_build(S, proof, previous_hash, now) ==
    << <<kIndex, IntV(Len(S.chain) + 1)>>,
       <<kProof, proof>>,
       <<kTimestamp, FloatV(now)>>,
       <<kTransactions, ListV(S.current_transactions)>>,
       <<kPreviousHash, previous_hash>> >>

new_block_reset(S) ==
    [chain |-> S.chain,
     current_transactions |-> Len(S.lists) + 1,
     lists |-> Append(S.lists, <<>>),
     dicts |-> S.dicts]

new_block_append(S, block) ==
    [chain |-> Append(S.chain, block),
     current_transactions |-> S.current_transactions,
     lists |-> S.lists,
     dicts |-> S.dicts]

\* new_transaction statement by statement: the append of lines 99-100 and
\* the return of line 101.
new_transaction_append(S, sender, recipient, amount) ==
    [chain |-> S.chain,
     current_transactions |-> S.current_transactions,
     lists |-> [S.lists EXCEPT
                  ![S.current_transactions] = Append(@, Len(S.dicts) + 1)],
     dicts |-> Append(S.dicts, << <<kSender, sender>>,
                                  <<kRecipient, recipient>>,
                                  <<kAmount, amount>> >>)]

\* line 101 returning the index of the last block itself.
new_transaction_return_last(S) == BlockIndex(last_block(S))

new_transaction_return(S) == BlockIndex(last_block(S)) + 1

\* Blockchain.__init__, with the clock reading of the genesis block.
EmptyLedger == [chain |-> <<>>, current_transactions |-> 1,
                lists |-> << <<>> >>, dicts |-> <<>>]

\* __init__ passing the sentinel as the text "1".
Genesis_text_sentinel(now) ==
    new_block(EmptyLedger, IntV(GenesisProof), StrV(<<49>>), now).S

Genesis(now) ==
    new_block(EmptyLedger, IntV(GenesisProof), IntV(GenesisPreviousHash), now).S

(***************************************************************************)
(* The /mine handler: the ledger after the request, the response, and what  *)
(* the new_transaction calls it made returned (the handler drops it).      *)
(***************************************************************************)
\* mine with the sender and the recipient of the reward exchanged.
mine_reward_swapped(S, data, now) ==
    IF ~(HasKey(data, kProof) /\ HasKey(data, kId))
    THEN [S |-> S, status |-> 400, enqueued |-> <<>>,
          body |-> [message |-> "Missing required fields."]]
    ELSE
      LET proof_sent == Get(data, kProof)
          blk_str == JsonDumps(DictV(last_block(S)), S.lists, S.dicts)
          is_proof_valid == valid_proof(blk_str, proof_sent)
          recipient_id == Get(data, kId)
      IN IF is_proof_valid
         THEN LET previous_hash == hash(S, last_block(S))
                  nb == new_block(S, proof_sent, StrV(previous_hash), now)
                  nt == new_transaction(nb.S, recipient_id, StrV(RewardSender),
                                        IntV(RewardAmount))
              IN [S |-> nt.S, status |-> 200, enqueued |-> <<nt.ret>>,
                  body |-> [message |-> "Congratulation! New block is found",
                            index |-> Get(nb.ret, kIndex),
                            transactions |-> BlockTransactions(nt.S, nb.ret),
                            proof |-> Get(nb.ret, kProof),
                            previous_hash |-> Get(nb.ret, kPreviousHash)]]
         ELSE [S |-> S, status |-> 200, enqueued |-> <<>>,
               body |-> [message |-> "Invalid Proof. Unsuccessful Try again."]]


\* mine appending the block whatever valid_proof answered.
mine_accepts_any_proof(S, data, now) ==
    IF ~(HasKey(data, kProof) /\ HasKey(data, kId))
    THEN [S |-> S, status |-> 400, enqueued |-> <<>>,
          body |-> [message |-> "Missing required fields."]]
    ELSE
      LET proof_sent == Get(data, kProof)
          blk_str == JsonDumps(DictV(last_block(S)), S.lists, S.dicts)
          is_proof_valid == valid_proof(blk_str, proof_sent)
          recipient_id == Get(data, kId)
      IN IF is_proof_valid \/ TRUE
         THEN LET previous_hash == hash(S, last_block(S))
                  nb == new_block(S, proof_sent, StrV(previous_hash), now)
                  nt == new_transaction(nb.S, StrV(RewardSender), recipient_id,
                                        IntV(RewardAmount))
              IN [S |-> nt.S, status |-> 200, enqueued |-> <<nt.ret>>,
                  body |-> [message |-> "Congratulation! New block is found",
                            index |-> Get(nb.ret, kIndex),
                            transactions |-> BlockTransactions(nt.S, nb.ret),
                            proof |-> Get(nb.ret, kProof),
                            previous_hash |-> Get(nb.ret, kPreviousHash)]]
         ELSE [S |-> S, status |-> 200, enqueued |-> <<>>,
               body |-> [message |-> "Invalid Proof. Unsuccessful Try again."]]


\* mine answering a request that lacks a field with the default status.
mine_missing_status_default(S, data, now) ==
    IF ~(HasKey(data, kProof) /\ HasKey(data, kId))
    THEN [S |-> S, status |-> 200, enqueued |-> <<>>,
          body |-> [message |-> "Missing required fields."]]
    ELSE
      LET proof_sent == Get(data, kProof)
          blk_str == JsonDumps(DictV(last_block(S)), S.lists, S.dicts)
          is_proof_valid == valid_proof(blk_str, proof_sent)
          recipient_id == Get(data, kId)
      IN IF is_proof_valid
         THEN LET previous_hash == hash(S, last_block(S))
                  nb == new_block(S, proof_sent, StrV(previous_hash), now)
                  nt == new_transaction(nb.S, StrV(RewardSender), recipient_id,
                                        IntV(RewardAmount))
              IN [S |-> nt.S, status |-> 200, enqueued |-> <<nt.ret>>,
                  body |-> [message |-> "Congratulation! New block is found",
                            index |-> Get(nb.ret, kIndex),
                            transactions |-> BlockTransactions(nt.S, nb.ret),
                            proof |-> Get(nb.ret, kProof),
                            previous_hash |-> Get(nb.ret, kPreviousHash)]]
         ELSE [S |-> S, status |-> 200, enqueued |-> <<>>,
               body |-> [message |-> "Invalid Proof. Unsuccessful Try again."]]


\* mine enqueueing the reward before it creates the block.
mine_reward_first(S, data, now) ==
    IF ~(HasKey(data, kProof) /\ HasKey(data, kId))
    THEN [S |-> S, status |-> 400, enqueued |-> <<>>,
          body |-> [message |-> "Missing required fields."]]
    ELSE
      LET proof_sent == Get(data, kProof)
          blk_str == JsonDumps(DictV(last_block(S)), S.lists, S.dicts)
          is_proof_valid == valid_proof(blk_str, proof_sent)
          recipient_id == Get(data, kId)
      IN IF is_proof_valid
         THEN LET previous_hash == hash(S, last_block(S))
                  nt == new_transaction(S, StrV(RewardSender), recipient_id,
                                        IntV(RewardAmount))
                  nb == new_block(nt.S, proof_sent, StrV(previous_hash), now)
              IN [S |-> nb.S, status |-> 200, enqueued |-> <<nt.ret>>,
                  body |-> [message |-> "Congratulation! New block is found",
                            index |-> Get(nb.ret, kIndex),
                            transactions |-> BlockTransactions(nb.S, nb.ret),
                            proof |-> Get(nb.ret, kProof),
                            previous_hash |-> Get(nb.ret, kPreviousHash)]]
         ELSE [S |-> S, status |-> 200, enqueued |-> <<>>,
               body |-> [message |-> "Invalid Proof. Unsuccessful Try again."]]


mine(S, data, now) ==
    IF ~(HasKey(data, kProof) /\ HasKey(data, kId))
    THEN [S |-> S, status |-> 400, enqueued |-> <<>>,
          body |-> [message |-> "Missing required fields."]]
    ELSE
      LET proof_sent == Get(data, kProof)
          blk_str == JsonDumps(DictV(last_block(S)), S.lists, S.dicts)
          is_proof_valid == valid_proof(blk_str, proof_sent)
          recipient_id == Get(data, kId)
      IN IF is_proof_valid
         THEN LET previous_hash == hash(S, last_block(S))
                  nb == new_block(S, proof_sent, StrV(previous_hash), now)
                  nt == new_transaction(nb.S, StrV(RewardSender), recipient_id,
                                        IntV(RewardAmount))
              IN [S |-> nt.S, status |-> 200, enqueued |-> <<nt.ret>>,
                  body |-> [message |-> "Congratulation! New block is found",
                            index |-> Get(nb.ret, kIndex),
                            transactions |-> BlockTransactions(nt.S, nb.ret),
                            proof |-> Get(nb.ret, kProof),
                            previous_hash |-> Get(nb.ret, kPreviousHash)]]
         ELSE [S |-> S, status |-> 200, enqueued |-> <<>>,
               body |-> [message |-> "Invalid Proof. Unsuccessful Try again."]]

\* mine step by step: the read of the last block (line 126), the validation
\* of the proof sent against the text read (line 128) and the hash of the
\* block that is last by then (line 132).
mine_read(S) == JsonDumps(DictV(last_block(S)), S.lists, S.dicts)

\* line 128 taking every proof for valid.
mine_validate_any(blk_str, data) == TRUE

mine_validate(blk_str, data) == valid_proof(blk_str, Get(data, kProof))

mine_hash(S) == StrV(hash(S, last_block(S)))

(***************************************************************************)
(* The state machine.  result records the last call: its name, its         *)
(* arguments and what it returned; returned[a] is what the new_transaction *)
(* call that created the transaction at address a returned.                *)
(***************************************************************************)
Install(S) ==
    /\ chain' = S.chain
    /\ current_transactions' = S.current_transactions
    /\ lists' = S.lists
    /\ dicts' = S.dicts

\* The request threads of the server, and a thread that is in no call.
Threads == {1, 2}
Idle == [pc |-> "idle"]

\* blockchain = Blockchain()
Init ==
    \E now \in Times :
        /\ chain = Genesis(now).chain
        /\ current_transactions = Genesis(now).current_transactions
        /\ lists = Genesis(now).lists
        /\ dicts = Genesis(now).dicts
        /\ returned = <<>>
        /\ result = [op |-> "init"]
        /\ threads = [t \in Threads |-> Idle]

\* The previous_hash arguments of a direct new_block call: the default None,
\* or the hash of the last block.
PreviousHashes == {NoneV, StrV(hash(Ledger, last_block(Ledger)))}

\* The JSON bodies of the mine requests: each of 'proof' and 'id' is optional.
Requests ==
    {<<>>}
    \cup {<< <<kProof, IntV(p)>> >> : p \in Proofs}
    \cup {<< <<kId, StrV(i)>> >> : i \in Ids}
    \cup {<< <<kProof, IntV(p)>>, <<kId, StrV(i)>> >> : p \in Proofs, i \in Ids}

NewBlock ==
    \E p \in DirectProofs, ph \in PreviousHashes, now \in Times :
        \E r \in {new_block(Ledger, IntV(p), ph, now)} :
        /\ Len(chain) < MaxChain
        /\ Install(r.S)
        /\ returned' = returned
        /\ threads' = threads
        /\ result' = [op |-> "new_block", args |-> <<IntV(p), ph, now>>,
                      ret |-> r.ret]

NewTransaction ==
    \E s \in Senders, rcp \in Ids, a \in Amounts :
        \E r \in {new_transaction(Ledger, StrV(s), StrV(rcp), IntV(a))} :
        /\ Len(dicts) < MaxTxs
        /\ Install(r.S)
        /\ returned' = Append(returned, r.ret)
        /\ threads' = threads
        /\ result' = [op |-> "new_transaction",
                      args |-> <<StrV(s), StrV(rcp), IntV(a)>>, ret |-> r.ret]

Mine ==
    \E data \in Requests, now \in Times :
        \E r \in {mine(Ledger, data, now)} :
        /\ Len(r.S.chain) <= MaxChain
        /\ Len(r.S.dicts) <= MaxTxs
        /\ Install(r.S)
        /\ returned' = returned \o r.enqueued
        /\ threads' = threads
        /\ result' = [op |-> "mine", data |-> data,
                      status |-> r.status, body |-> r.body]

Next == NewBlock \/ NewTransaction \/ Mine

Spec == Init /\ [][Next]_vars

\* valid_proof is a static method: a call of it on a text and a proof, beside
\* the ledger.  The texts are the serialized genesis blocks and the short
\* texts over "0", "1" and "a".
Texts ==
    {JsonDumps(DictV(Genesis(now).chain[1]), Genesis(now).lists, <<>>) :
        now \in Times}
    \cup UNION {[1..n -> {48, 49, 97}] : n \in 0..MaxTextLen}

ValidProof ==
    \E s \in Texts, p \in 0..MaxProofArg :
        /\ result' = [op |-> "valid_proof", args |-> <<s, IntV(p)>>,
                      ret |-> valid_proof(s, IntV(p))]
        /\ UNCHANGED <<chain, current_transactions, lists, dicts, returned, threads>>

ProofNext == ValidProof

ProofSpec == Init /\ [][ProofNext]_vars

\* hash is a static method: a call of it on a block of the chain and on a
\* dictionary of the same five fields inserted in another order.
Orders == {<<5, 4, 3, 2, 1>>, <<3, 1, 5, 2, 4>>}
Permuted(block, o) == [k \in 1..Len(block) |-> block[o[k]]]

HashCall ==
    \E i \in 1..Len(chain), o \in Orders :
        /\ result' = [op |-> "hash",
                      args |-> <<chain[i], Permuted(chain[i], o)>>,
                      ret |-> <<hash(Ledger, chain[i]),
                                hash(Ledger, Permuted(chain[i], o))>>]
        /\ UNCHANGED <<chain, current_transactions, lists, dicts, returned, threads>>

HashNext == Mine \/ HashCall

HashSpec == Init /\ [][HashNext]_vars

(***************************************************************************)
(* Calls handled by the request threads of the server, statement by        *)
(* statement: nothing locks the ledger, so between two statements of one   *)
(* call any statement of another may run.  threads[t] holds where thread t *)
(* is in its call and the locals of that call.  returned[a] is 0 from the  *)
(* append of transaction a until its new_transaction call returns.         *)
(***************************************************************************)
\* The new_block calls that have built their block and not yet appended it.
InFlight ==
    {t \in Threads : threads[t].pc \in {"new_block_39", "new_block_41"}}

\* new_block, lines 30-36, called with the default previous_hash
BuildBlock(t) ==
    /\ threads[t].pc = "idle"
    /\ Len(chain) + Cardinality(InFlight) < MaxChain
    /\ \E p \in DirectProofs, now \in Times :
         threads' = [threads EXCEPT ![t] =
                        [pc |-> "new_block_39",
                         block |-> new_block_build(Ledger, IntV(p), NoneV, now)]]
    /\ UNCHANGED <<chain, current_transactions, lists, dicts, returned, result>>

\* new_block, line 39
ResetPending(t) ==
    /\ threads[t].pc = "new_block_39"
    /\ Install(new_block_reset(Ledger))
    /\ threads' = [threads EXCEPT ![t].pc = "new_block_41"]
    /\ UNCHANGED <<returned, result>>

\* new_block, lines 41-43
AppendBlock(t) ==
    /\ threads[t].pc = "new_block_41"
    /\ Install(new_block_append(Ledger, threads[t].block))
    /\ threads' = [threads EXCEPT ![t] = Idle]
    /\ UNCHANGED <<returned, result>>

\* new_transaction, lines 99-100
AppendTransaction(t) ==
    /\ threads[t].pc = "idle"
    /\ Len(dicts) < MaxTxs
    /\ \E s \in Senders, rcp \in Ids, a \in Amounts :
         Install(new_transaction_append(Ledger, StrV(s), StrV(rcp), IntV(a)))
    /\ returned' = Append(returned, 0)
    /\ threads' = [threads EXCEPT ![t] =
                     [pc |-> "new_transaction_101", addr |-> Len(dicts) + 1]]
    /\ UNCHANGED result

\* new_transaction, line 101
ReturnIndex(t) ==
    /\ threads[t].pc = "new_transaction_101"
    /\ returned' = [returned EXCEPT
                      ![threads[t].addr] = new_transaction_return(Ledger)]
    /\ threads' = [threads EXCEPT ![t] = Idle]
    /\ UNCHANGED <<chain, current_transactions, lists, dicts, result>>

\* One thread in new_transaction calls while the other is in new_block calls.
EnqueueCreateNext ==
    \/ AppendTransaction(1)
    \/ ReturnIndex(1)
    \/ BuildBlock(2)
    \/ ResetPending(2)
    \/ AppendBlock(2)

EnqueueCreateSpec == Init /\ [][EnqueueCreateNext]_vars

\* Both threads in calls of either kind.
RaceNext ==
    \E t \in Threads :
        \/ AppendTransaction(t)
        \/ ReturnIndex(t)
        \/ BuildBlock(t)
        \/ ResetPending(t)
        \/ AppendBlock(t)

RaceSpec == Init /\ [][RaceNext]_vars

\* The mine requests past their check of the fields and not yet answered.
InMine ==
    {t \in Threads : threads[t].pc \in {"mine_128", "mine_132", "mine_133",
                                        "mine_134"}}

\* The bodies of the requests handled concurrently: those of one miner, the
\* id naming only the recipient of the reward.
RaceRequests ==
    {d \in Requests : HasKey(d, kId) => Get(d, kId) = StrV(<<97>>)}

\* mine, lines 115-126: the fields are checked and the last block is read.
MineRead(t) ==
    /\ threads[t].pc = "idle"
    /\ \E data \in RaceRequests :
         IF ~(HasKey(data, kProof) /\ HasKey(data, kId))
         THEN /\ result' = [op |-> "mine", data |-> data, status |-> 400,
                            body |-> [message |-> "Missing required fields."]]
              /\ threads' = threads
         ELSE /\ Len(chain) + Cardinality(InMine) < MaxChain
              /\ Len(dicts) + Cardinality(InMine) < MaxTxs
              /\ threads' = [threads EXCEPT ![t] =
                                [pc |-> "mine_128", data |-> data,
                                 blk_str |-> mine_read(Ledger)]]
              /\ result' = result
    /\ UNCHANGED <<chain, current_transactions, lists, dicts, returned>>

\* mine, lines 128-131 and 145: the proof is validated against the text read.
MineValidate(t) ==
    /\ threads[t].pc = "mine_128"
    /\ IF mine_validate(threads[t].blk_str, threads[t].data)
       THEN /\ threads' = [threads EXCEPT ![t].pc = "mine_132"]
            /\ result' = result
       ELSE /\ threads' = [threads EXCEPT ![t] = Idle]
            /\ result' = [op |-> "mine", data |-> threads[t].data,
                          status |-> 200,
                          body |-> [message |->
                                     "Invalid Proof. Unsuccessful Try again."]]
    /\ UNCHANGED <<chain, current_transactions, lists, dicts, returned>>

\* mine, line 132
MineHash(t) ==
    /\ threads[t].pc = "mine_132"
    /\ threads' = [threads EXCEPT ![t] =
                     [pc |-> "mine_133", data |-> threads[t].data,
                      blk_str |-> threads[t].blk_str,
                      previous_hash |-> mine_hash(Ledger)]]
    /\ UNCHANGED <<chain, current_transactions, lists, dicts, returned, result>>

\* mine, line 133: the new_block call, in one piece.
MineNewBlock(t) ==
    /\ threads[t].pc = "mine_133"
    /\ \E now \in Times :
         \E r \in {new_block(Ledger, Get(threads[t].data, kProof),
                             threads[t].previous_hash, now)} :
         /\ Install(r.S)
         /\ threads' = [threads EXCEPT ![t] =
                          [pc |-> "mine_134", data |-> threads[t].data,
                           blk_str |-> threads[t].blk_str,
                           block |-> r.ret]]
    /\ UNCHANGED <<returned, result>>

\* mine, lines 134-143: the new_transaction call, in one piece, and the
\* response.
MineReward(t) ==
    /\ threads[t].pc = "mine_134"
    /\ \E r \in {new_transaction(Ledger, StrV(RewardSender),
                                  Get(threads[t].data, kId),
                                  IntV(RewardAmount))} :
         /\ Install(r.S)
         /\ returned' = Append(returned, r.ret)
         /\ result' = [op |-> "mine", data |-> threads[t].data,
                       status |-> 200,
                       body |-> [message |-> "Congratulation! New block is found",
                                 index |-> Get(threads[t].block, kIndex),
                                 transactions |->
                                     BlockTransactions(r.S, threads[t].block),
                                 proof |-> Get(threads[t].block, kProof),
                                 previous_hash |->
                                     Get(threads[t].block, kPreviousHash)]]
    /\ threads' = [threads EXCEPT ![t] = Idle]

\* Both threads handling mine requests.
ConcurrentMineNext ==
    \E t \in Threads :
        \/ MineRead(t)
        \/ MineValidate(t)
        \/ MineHash(t)
        \/ MineNewBlock(t)
        \/ MineReward(t)

ConcurrentMineSpec == Init /\ [][ConcurrentMineNext]_vars

\* The two ways the ledger is driven are also specified apart: the engine's
\* methods called directly, and the mine requests of the server.

\* The engine called directly, one call at a time.
EngineNext == NewBlock \/ NewTransaction

EngineSpec == Init /\ [][EngineNext]_vars

\* The ledger driven by mine requests only, one request at a time.
MineNext == Mine

MineSpec == Init /\ [][MineNext]_vars

\* A mine request that is answered with a new block: every step of LiveSpec
\* is a Mine step, and the ones that lengthen the chain are those.
MineSuccess == Len(chain') > Len(chain)

\* A further block can be mined within the bounds of the model.
CanGrow == Len(chain) < MaxChain /\ Len(dicts) < MaxTxs

\* Some request would be answered with a new block: one of the proofs is valid
\* for the last block as it stands.
MineSuccessEnabled ==
    /\ CanGrow
    /\ \E p \in Proofs :
         valid_proof(JsonDumps(DictV(last_block(Ledger)), lists, dicts), IntV(p))

\* Miners keep submitting until a proof is accepted: weak fairness of
\* MineSuccess, with its enabling condition written out.
LiveSpec ==
    /\ Init /\ [][MineNext]_vars
    /\ ([]<>(~MineSuccessEnabled) \/ []<><<MineSuccess>>_vars)

(***************************************************************************)
(* Properties.                                                             *)
(***************************************************************************)
\* The pending transactions, and the transactions sealed in block i, as the
\* addresses of the transaction objects.
Pending == lists[current_transactions]
Sealed(i) == lists[BlockList(chain[i])]

\* The block a step appended, and the transactions sealed in it.
Appended == chain'[Len(chain')]
SealedInAppended == lists'[BlockList(Appended)]

\* C1 (MineSpec): every block but the genesis block carries, as previous_hash,
\* the hash of the block before it in the chain, computed on that block as it
\* stands in the current state.
C1_ChainLinkage ==
    \A i \in 2..Len(chain) :
        BlockPreviousHash(chain[i]) = StrV(hash(Ledger, chain[i - 1]))

\* Two blocks have been mined, the second sealing a transaction.
C1_Witness ==
    /\ Len(chain) = 3
    /\ Sealed(3) # <<>>
    /\ BlockPreviousHash(chain[3]) = StrV(hash(Ledger, chain[2]))

\* C10: a freshly constructed ledger holds the genesis block alone, with
\* index 1, proof 100, the integer 1 as previous_hash and no transactions, and
\* nothing is pending.
C10_Genesis ==
    result.op = "init" =>
        /\ Len(chain) = 1
        /\ BlockIndex(chain[1]) = 1
        /\ BlockProof(chain[1]) = IntV(100)
        /\ BlockPreviousHash(chain[1]) = IntV(1)
        /\ BlockTransactions(Ledger, chain[1]) = <<>>
        /\ Pending = <<>>
        /\ dicts = <<>>

\* The ledger right after construction.
C10_Witness ==
    /\ result.op = "init"
    /\ Len(chain) = 1
    /\ BlockPreviousHash(chain[1]).tag = "int"

\* The number of places, among the pending list and the blocks' lists, that
\* hold the transaction at address a.
Container(i) == IF i = 0 THEN Pending ELSE Sealed(i)
Places(a) ==
    {pl \in (0..Len(chain)) \X (1..Len(dicts)) :
        /\ pl[2] <= Len(Container(pl[1]))
        /\ Container(pl[1])[pl[2]] = a}
Holds(seq, a) == \E k \in 1..Len(seq) : seq[k] = a

\* C2 (EngineSpec): the block at position i of the chain (counting from 1,
\* the genesis block) has index i, before and after every call; a new_block
\* call lengthens the chain by exactly one block and a new_transaction call
\* leaves the chain alone, so N new_block calls leave N+1 blocks, indexed
\* 1..N+1.
IndexIsPosition == \A i \in 1..Len(chain) : BlockIndex(chain[i]) = i

C2_MonotonicIndex ==
    [][/\ IndexIsPosition
       /\ IndexIsPosition'
       /\ result'.op = "new_block" =>
            /\ Len(chain') = Len(chain) + 1
            /\ SubSeq(chain', 1, Len(chain)) = chain
       /\ result'.op = "new_transaction" => chain' = chain]_vars

\* Two blocks were appended to the genesis block, the last call a new_block.
C2_Witness ==
    /\ result.op = "new_block"
    /\ Len(chain) = 3
    /\ BlockIndex(chain[3]) = 3

\* C3 (EngineSpec): after every call each transaction object is in exactly one
\* place (pending, or one block's list, once); a transaction sealed in block i
\* stays in block i; and a new_block call moves every pending transaction into
\* the block it creates and leaves none pending.
C3_NoDuplication ==
    [][/\ \A a \in 1..Len(dicts') : Cardinality(Places(a)') = 1
       /\ \A a \in 1..Len(dicts), i \in 1..Len(chain) :
            Holds(Sealed(i), a) => Holds(Sealed(i)', a)
       /\ result'.op = "new_block" =>
            /\ \A a \in 1..Len(dicts) :
                 Holds(Pending, a) => Holds(SealedInAppended, a)
            /\ Pending' = <<>>]_vars

\* Two transactions accepted at different times sit in two different blocks.
C3_Witness ==
    /\ Len(chain) = 3
    /\ Sealed(2) = <<1>>
    /\ Sealed(3) = <<2>>
    /\ Pending = <<>>

\* C4 (EngineSpec): a new_block call leaves the pending list empty, and the
\* block it appends and returns holds the transactions that were pending
\* before the call, the same objects with the same values in the same order.
C4_QueueDrain ==
    [][result'.op = "new_block" =>
         /\ Pending' = <<>>
         /\ SealedInAppended = Pending
         /\ BlockTransactions(LedgerNext, Appended)
              = ListItems(Ledger, current_transactions)
         /\ result'.ret = Appended]_vars

\* A block was created from two pending transactions of different values.
C4_Witness ==
    /\ result.op = "new_block"
    /\ Sealed(Len(chain)) = <<1, 2>>
    /\ dicts[1] # dicts[2]
    /\ Pending = <<>>

\* C9 (EngineSpec): a new_transaction call appends one transaction, made of
\* its arguments, to the end of the pending list, leaves the chain alone and
\* returns the index of the last block plus one; and every sealed transaction
\* sits in the block whose index its new_transaction call returned.
SealedWherePromised ==
    \A i \in 1..Len(chain) : \A k \in 1..Len(Sealed(i)) :
        returned[Sealed(i)[k]] = BlockIndex(chain[i])

C9_EnqueueTransaction ==
    [][/\ result'.op = "new_transaction" =>
            LET addr == Len(dicts) + 1 IN
            /\ dicts' = Append(dicts, << <<kSender, result'.args[1]>>,
                                         <<kRecipient, result'.args[2]>>,
                                         <<kAmount, result'.args[3]>> >>)
            /\ Pending' = Append(Pending, addr)
            /\ current_transactions' = current_transactions
            /\ chain' = chain
            /\ result'.ret = BlockIndex(last_block(Ledger)) + 1
            /\ returned' = Append(returned, result'.ret)
       /\ SealedWherePromised']_vars

\* A transaction enqueued after the first new_block call, promised index 3,
\* is sealed in the block of index 3, and another was just enqueued.
C9_Witness ==
    /\ Len(chain) = 3
    /\ Sealed(3) = <<1>>
    /\ returned[1] = 3
    /\ result.op = "new_transaction"
    /\ Pending = <<2>>

\* The request a mine step answered, and what the handler is given to decide
\* on: whether both fields are there, and the serialization of the last block.
HasBoth(data) == HasKey(data, kProof) /\ HasKey(data, kId)
LastBlockString == JsonDumps(DictV(last_block(Ledger)), lists, dicts)
LedgerUnchanged == UNCHANGED <<chain, current_transactions, lists, dicts>>

\* The reward transaction for the node id.
IsReward(d, id) ==
    /\ Len(d) = 3
    /\ Get(d, kSender) = StrV(<<48>>)
    /\ Get(d, kRecipient) = id
    /\ Get(d, kAmount) = IntV(1)

\* C5 (MineSpec): a mine request with both fields and a proof that is valid
\* against the serialized last block is answered 200 and appends one block:
\* index the old length of the chain plus one, the submitted proof, the hash of
\* the old last block as previous_hash, and the transactions that were pending;
\* afterwards exactly the reward {sender "0", recipient id, amount 1} is
\* pending.
C5_SuccessfulMine ==
    [][(/\ result'.op = "mine"
        /\ HasBoth(result'.data)
        /\ valid_proof(LastBlockString, Get(result'.data, kProof)))
       => /\ result'.status = 200
          /\ chain' = Append(chain, Appended)
          /\ BlockIndex(Appended) = Len(chain) + 1
          /\ BlockProof(Appended) = Get(result'.data, kProof)
          /\ BlockPreviousHash(Appended) = StrV(hash(Ledger, last_block(Ledger)))
          /\ BlockTransactions(LedgerNext, Appended)
               = ListItems(Ledger, current_transactions)
          /\ Len(lists'[current_transactions']) = 1
          /\ IsReward(dicts'[lists'[current_transactions'][1]],
                      Get(result'.data, kId))]_vars

\* A second block was mined: it sealed the reward of the first, and the
\* reward of the second is pending.
C5_Witness ==
    /\ result.op = "mine"
    /\ result.status = 200
    /\ Len(chain) = 3
    /\ Len(Sealed(3)) = 1
    /\ BlockProof(chain[3]) = Get(result.data, kProof)
    /\ Len(Pending) = 1

\* C6 (MineSpec): a mine request with both fields and a proof that is not
\* valid against the serialized last block changes neither the chain nor the
\* pending transactions and is answered 200 with a message and nothing else.
C6_InvalidProof ==
    [][(/\ result'.op = "mine"
        /\ HasBoth(result'.data)
        /\ ~valid_proof(LastBlockString, Get(result'.data, kProof)))
       => /\ LedgerUnchanged
          /\ result'.status = 200
          /\ DOMAIN result'.body = {"message"}]_vars

\* An invalid proof was answered, on a chain that has a mined block.
C6_Witness ==
    /\ result.op = "mine"
    /\ HasBoth(result.data)
    /\ ~valid_proof(LastBlockString, Get(result.data, kProof))
    /\ result.status = 200
    /\ Len(chain) = 2

\* C7 (MineSpec): a mine request that lacks 'proof' or 'id' is answered 400
\* and changes neither the chain nor the pending transactions, also when the
\* proof it carries is valid.
C7_MissingField ==
    [][(/\ result'.op = "mine"
        /\ ~HasBoth(result'.data))
       => /\ result'.status = 400
          /\ LedgerUnchanged]_vars

\* A request carrying a valid proof and no id was rejected.
C7_Witness ==
    /\ result.op = "mine"
    /\ HasKey(result.data, kProof)
    /\ ~HasKey(result.data, kId)
    /\ valid_proof(LastBlockString, Get(result.data, kProof))
    /\ result.status = 400

\* C8 (MineSpec): a successful mine creates its reward after it sealed the
\* block: the reward is pending, it is not in the block the request appended,
\* the response lists that block's transactions, and what was pending before
\* (the reward of the mine before) is sealed in the appended block.  So the
\* reward of the n-th successful mine, which appended block n+1, is pending
\* while the chain has n+1 blocks and sits in block n+2 and in no other.
RewardInNextBlock ==
    \A a \in 1..Len(dicts) :
        /\ Holds(Pending, a) <=> Len(chain) = a + 1
        /\ \A i \in 1..Len(chain) : Holds(Sealed(i), a) <=> i = a + 2

C8_RewardAfterSeal ==
    [][/\ (result'.op = "mine" /\ Len(chain') > Len(chain)) =>
            LET reward == Len(dicts') IN
            /\ Len(dicts') = Len(dicts) + 1
            /\ IsReward(dicts'[reward], Get(result'.data, kId))
            /\ ~Holds(SealedInAppended, reward)
            /\ lists'[current_transactions'] = <<reward>>
            /\ SealedInAppended = Pending
            /\ result'.body.transactions
                 = BlockTransactions(LedgerNext, Appended)
       /\ RewardInNextBlock']_vars

\* The reward of the first mine is sealed in the block of the second mine,
\* whose own reward is pending.
C8_Witness ==
    /\ result.op = "mine"
    /\ Len(chain) = 3
    /\ Sealed(2) = <<>>
    /\ Sealed(3) = <<1>>
    /\ Pending = <<2>>
    /\ Len(result.body.transactions) = 1

\* C11 (EngineSpec): the chain is append-only.  No call shortens the chain,
\* and a block that is at position i stays at position i with the same index,
\* timestamp, proof and previous_hash, the same list object as transactions,
\* and the same transactions in that list; a new_transaction call in
\* particular leaves every sealed block's transactions as they were.
C11_AppendOnly ==
    [][/\ Len(chain') >= Len(chain)
       /\ \A i \in 1..Len(chain) :
            /\ chain'[i] = chain[i]
            /\ lists'[BlockList(chain'[i])] = lists[BlockList(chain[i])]
            /\ BlockTransactions(LedgerNext, chain'[i])
                 = BlockTransactions(Ledger, chain[i])]_vars

\* A transaction was enqueued after a block had sealed another.
C11_Witness ==
    /\ result.op = "new_transaction"
    /\ Len(chain) = 2
    /\ Sealed(2) = <<1>>
    /\ Pending = <<2>>

\* C12 (EngineSpec): the chain is never empty, so last_block is defined, and
\* it is the block the latest new_block call appended and returned: its index
\* is the length of the chain.
C12_LastBlock ==
    /\ Len(chain) >= 1
    /\ Len(chain) \in DOMAIN chain
    /\ BlockIndex(last_block(Ledger)) = Len(chain)
    /\ result.op = "new_block" => last_block(Ledger) = result.ret

\* Two blocks were appended to the genesis block; the last is the last block.
C12_Witness ==
    /\ Len(chain) = 3
    /\ result.op = "new_block"
    /\ last_block(Ledger) = chain[3]
    /\ last_block(Ledger) # chain[1]

\* C15 (EngineSpec): new_block validates nothing.  In every state, called
\* with any proof and any previous_hash it appends exactly one block carrying
\* them; and every new_block call made did so, also with a proof that is not
\* valid against the last block and a previous_hash that is not its hash.
C15_Unconditional ==
    [][/\ \A p \in DirectProofs, ph \in PreviousHashes, now \in Times :
            LET r == new_block(Ledger, IntV(p), ph, now) IN
            /\ r.S.chain = Append(chain, r.ret)
            /\ BlockProof(r.ret) = IntV(p)
            /\ BlockPreviousHash(r.ret) = ph
       /\ result'.op = "new_block" =>
            /\ chain' = Append(chain, Appended)
            /\ BlockProof(Appended) = result'.args[1]
            /\ BlockPreviousHash(Appended) = result'.args[2]]_vars

\* A block was appended with a proof that is not valid against the block
\* before it and with None as previous_hash.
C15_Witness ==
    /\ result.op = "new_block"
    /\ Len(chain) = 2
    /\ ~valid_proof(JsonDumps(DictV(chain[1]), lists, dicts), BlockProof(chain[2]))
    /\ BlockPreviousHash(chain[2]) = NoneV
    /\ BlockPreviousHash(chain[2]) # StrV(hash(Ledger, chain[1]))

\* The digest valid_proof is about: of the text followed at once by the
\* decimal digits of the proof.
GuessDigest(s, p) == Sha256HexDigest(s \o Decimal(p))
LeadingZeroes(digest, n) == \A i \in 1..n : digest[i] = 48

C20_DocstringThreeZeroes ==
    result.op = "valid_proof" =>
        (result.ret
           <=> LeadingZeroes(GuessDigest(result.args[1], result.args[2].val), 3))

\* A hexdigest: 64 characters among 0-9 and a-f.
IsHexDigest(h) ==
    /\ Len(h) = HexDigestLen
    /\ \A i \in 1..Len(h) : h[i] \in (48..57) \cup (97..102)

\* C14 (HashSpec): hash answers a 64-character lowercase hex string; a block
\* and a dictionary of the same fields inserted in another order hash equal;
\* the call changes neither the chain nor the pending transactions, and asked
\* again after it the answer is the same; and the hash of every block of the
\* chain is the same before and after any operation that changes the ledger.
C14_HashDeterministic ==
    [][/\ result'.op = "hash" =>
            /\ IsHexDigest(result'.ret[1])
            /\ result'.ret[2] = result'.ret[1]
            /\ hash(LedgerNext, result'.args[1]) = result'.ret[1]
            /\ LedgerUnchanged
       /\ \/ LedgerUnchanged
          \/ \A i \in 1..Len(chain) :
                hash(LedgerNext, chain'[i]) = hash(Ledger, chain[i])]_vars

\* hash was called on a mined block that holds a reward and on the same
\* fields in reverse insertion order.
C14_Witness ==
    /\ result.op = "hash"
    /\ Len(chain) = 3
    /\ result.args[1] = chain[3]
    /\ Sealed(3) # <<>>
    /\ result.args[2] # result.args[1]
    /\ result.args[2][1][1] = kPreviousHash
    /\ result.ret[1] = result.ret[2]

\* C19 (LiveSpec): while successful mining keeps occurring, every pending
\* transaction is eventually in the transaction list of a block of the chain;
\* and over a step that appends no block, a pending transaction stays pending.
C19_EventuallySealed ==
    /\ \A a \in 1..MaxTxs :
         (Holds(Pending, a) /\ CanGrow)
            ~> (\E i \in 1..Len(chain) : Holds(Sealed(i), a))
    /\ [][\A a \in 1..Len(dicts) :
            (chain' = chain /\ Holds(Pending, a))
               => Holds(lists'[current_transactions'], a)]_vars

\* The reward of the first mined block is sealed in the second mined block,
\* and the reward of the second is pending after a request that appended
\* nothing.
C19_Witness ==
    /\ Len(chain) = 3
    /\ Holds(Sealed(3), 1)
    /\ Holds(Pending, 2)
    /\ result.op = "mine"
    /\ DOMAIN result.body = {"message"}

\* Every thread is between calls.
AllIdle == \A t \in Threads : threads[t].pc = "idle"

\* The index a new_transaction call returned is at most one behind the index
\* of the block that holds its transaction, and at most one ahead of the
\* chain.
PredictionNearSeal ==
    \A i \in 1..Len(chain) : \A k \in 1..Len(Sealed(i)) :
        returned[Sealed(i)[k]] # 0 =>
           /\ returned[Sealed(i)[k]] >= BlockIndex(chain[i]) - 1
           /\ returned[Sealed(i)[k]] <= Len(chain) + 1

\* C16 (EnqueueCreateSpec): with the statements of a new_transaction call
\* and of new_block calls interleaved, the call returns one more than the
\* index of the block that is last when its return statement runs, wherever
\* its transaction is by then; the index returned and the index of the block
\* that holds the transaction can differ (C16_Witness), the first being at
\* most one behind the second.
C16_StalePrediction ==
    [][/\ (threads[1].pc = "new_transaction_101" /\ threads'[1].pc = "idle") =>
            /\ returned'[threads[1].addr] = BlockIndex(chain[Len(chain)]) + 1
            /\ LedgerUnchanged
       /\ PredictionNearSeal']_vars

\* The transaction was appended, then a whole new_block call ran, then the
\* new_transaction call returned 3: the transaction is in the block of
\* index 2.
C16_Witness ==
    /\ AllIdle
    /\ Len(chain) = 2
    /\ Sealed(2) = <<1>>
    /\ BlockIndex(chain[2]) = 2
    /\ returned[1] = 3

\* C17 (RaceSpec), as claimed: once the interleaved new_block calls have
\* returned, every block's index is its position in the chain, and no
\* transaction is in the transaction lists of two blocks.
C17_ConcurrentCreateBlock ==
    AllIdle =>
        /\ IndexIsPosition
        /\ \A a \in 1..Len(dicts) :
             Cardinality({i \in 1..Len(chain) : Holds(Sealed(i), a)}) <= 1

\* The canonical serialization of the block at position i of the chain.
BlockString(i) == JsonDumps(DictV(chain[i]), lists, dicts)

\* C18 (ConcurrentMineSpec), as claimed: the proof of every block after the
\* genesis block is valid against the serialization of the block just before
\* it, and that block is the one whose hash is its previous_hash.
C18_ProofAgainstPredecessor ==
    \A i \in 2..Len(chain) :
        /\ valid_proof(BlockString(i - 1), BlockProof(chain[i]))
        /\ BlockPreviousHash(chain[i]) = StrV(hash(Ledger, chain[i - 1]))

\* The proof of every block after the genesis block is valid against a block
\* before it, and its previous_hash is the hash of a block before it that is
\* not before that one.
MinedAgainstEarlier ==
    \A i \in 2..Len(chain) :
        \E j \in 1..(i - 1) : \E h \in j..(i - 1) :
            /\ valid_proof(BlockString(j), BlockProof(chain[i]))
            /\ BlockPreviousHash(chain[i]) = StrV(hash(Ledger, chain[h]))

\* C18 (ConcurrentMineSpec), amended: the proof of every mined block is valid
\* against the text its request read, the serialization of a block before it
\* in the chain, and its previous_hash is the hash of a block before it that
\* is not before the one read; when the block read was still the last one as
\* the new block was appended, both are the block just before the new one.
C18_ProofAgainstBlockRead ==
    /\ \A t \in Threads :
         threads[t].pc = "mine_134" =>
            \E p \in 2..Len(chain) :
               /\ chain[p] = threads[t].block
               /\ BlockProof(chain[p]) = Get(threads[t].data, kProof)
               /\ valid_proof(threads[t].blk_str, BlockProof(chain[p]))
               /\ threads[t].blk_str = BlockString(p - 1) =>
                    BlockPreviousHash(chain[p])
                       = StrV(hash(Ledger, chain[p - 1]))
    /\ MinedAgainstEarlier

\* Two requests read the genesis block and sent the same proof; both blocks
\* were appended, and the proof of the second is valid against the genesis
\* block and not against the block before it.
C18_Witness ==
    /\ AllIdle
    /\ Len(chain) = 3
    /\ BlockProof(chain[3]) = BlockProof(chain[2])
    /\ valid_proof(BlockString(1), BlockProof(chain[3]))
    /\ ~valid_proof(BlockString(2), BlockProof(chain[3]))
    /\ BlockPreviousHash(chain[3]) = StrV(hash(Ledger, chain[2]))

====
